---- MODULE Spec2Model ----
(***************************************************************************)
(* A model of the conv crate's failure taxonomy (src/src/errors.rs), its   *)
(* recovery combinators, and the reflexive conversions and forwarding      *)
(* layers of src/src/lib.rs.                                               *)
(*                                                                         *)
(* Every operation of the crate is a pure function.  The state machine     *)
(* below is a caller: it starts from one input value (a plain value, a     *)
(* failure value or a conversion outcome) of a destination type T, and     *)
(* each step applies one operation of the crate to the current value val,  *)
(* as far as the operation's trait bounds allow.  op is the operation      *)
(* applied last, arg the value it was applied to, and pc how it ended.     *)
(***************************************************************************)
EXTENDS Integers, Sequences, FiniteSets

VARIABLES T, arg, op, val, pc

vars == <<T, arg, op, val, pc>>

(***************************************************************************)
(* Bounds of the model.                                                    *)
(***************************************************************************)
\* Values of the destination type are 0..MaxDst.
MaxDst == 1
\* Values of the source (payload) type are 0..MaxPayload.
MaxPayload == 2

DstVal == 0..MaxDst
Payload == 0..MaxPayload

(***************************************************************************)
(* Values.  Every value carries its static type in ty, since the crate's   *)
(* operations are selected by type.                                        *)
(***************************************************************************)
\* A plain value n of the type named ty ("T" the destination, "U" the source).
Plain(ty, n) == [ty |-> ty, x |-> n]

\* The destination type's capabilities (misc::Saturated, misc::InvalidSentinel,
\* misc::SignedInfinity): whatever the type supplies.
DstTypes ==
    [saturated_min : DstVal, saturated_max : DstVal, invalid_sentinel : DstVal,
     neg_infinity : DstVal, pos_infinity : DstVal]

saturated_min(t) == Plain("T", t.saturated_min)
saturated_max(t) == Plain("T", t.saturated_max)
invalid_sentinel(t) == Plain("T", t.invalid_sentinel)
neg_infinity(t) == Plain("T", t.neg_infinity)
pos_infinity(t) == Plain("T", t.pos_infinity)

\* The variants of the failure enumerations.
GeneralErrorVariants == {"Underflow", "Overflow", "Unrepresentable"}
FloatErrorVariants == {"Underflow", "Overflow", "NotANumber"}
RangeErrorVariants == {"Underflow", "Overflow"}

\* The payload-carrying enumerations, the single-kind structs, the kind-only
\* enumerations.
PayloadEnums == {"GeneralError", "FloatError", "RangeError"}
PayloadStructs == {"Unrepresentable", "Underflow", "Overflow"}
KindEnums == {"GeneralErrorKind", "RangeErrorKind"}
ErrTypes == PayloadEnums \cup PayloadStructs \cup KindEnums \cup {"NoError"}

Variants(name) ==
    CASE name \in {"GeneralError", "GeneralErrorKind"} -> GeneralErrorVariants
      [] name = "FloatError" -> FloatErrorVariants
      [] name \in {"RangeError", "RangeErrorKind"} -> RangeErrorVariants
      [] OTHER -> {}

\* name::tag(v), name::tag and name(v).
Variant(name, tag, v) == [ty |-> name, tag |-> tag, v |-> v]
KindVariant(name, tag) == [ty |-> name, tag |-> tag]
Struct(name, v) == [ty |-> name, v |-> v]

\* A NoError with one variant: a NoError that has a value.
NoErrorValues_inhabited == {[ty |-> "NoError"]}

\* pub enum NoError {}: no value of it exists.
NoErrorValues == {}

\* The values of the failure type called name, with payloads from ps.
ErrValues(name, ps) ==
    CASE name \in PayloadEnums -> {Variant(name, t, p) : t \in Variants(name), p \in ps}
      [] name \in PayloadStructs -> {Struct(name, p) : p \in ps}
      [] name \in KindEnums -> {KindVariant(name, t) : t \in Variants(name)}
      [] OTHER -> NoErrorValues

\* Result<okty, err>: Ok(x) and Err(e).
Ok(okty, err, x) == [ty |-> "Result", okty |-> okty, err |-> err, arm |-> "Ok", x |-> x]
Err(okty, err, e) == [ty |-> "Result", okty |-> okty, err |-> err, arm |-> "Err", x |-> e]

\* How a call ends: it returns a value, panics, or never returns.
Ret(v) == [status |-> "returned", value |-> v]
Panic(msg) == [status |-> "panicked", value |-> msg]
Diverge == [status |-> "diverged", value |-> "loop"]

(***************************************************************************)
(* The failure taxonomy: into_inner, description and the widenings.        *)
(***************************************************************************)
\* IntoInner, enum arm: match self { $($name::$vname(v))|+ => v }.
into_inner_enum(e) == e.v

\* IntoInner, struct arm: self.0.
into_inner_struct(e) == e.v

\* The into_inner the derive gives the type of e.
into_inner(e) == IF e.ty \in PayloadEnums THEN into_inner_enum(e) ELSE into_inner_struct(e)

\* The failure types whose derive list holds IntoInner.
HasIntoInner(name) == name \in PayloadEnums \cup PayloadStructs

\* The EnumDesc and Desc texts of the derive lists, by variant (a single-kind
\* struct's text is that of the variant it is named after).
DescText(tag) ==
    CASE tag = "Underflow" -> "conversion resulted in underflow"
      [] tag = "Overflow" -> "conversion resulted in overflow"
      [] tag = "Unrepresentable" -> "could not convert unrepresentable value"
      [] tag = "NotANumber" -> "conversion target does not support not-a-number"

\* Error::description: the variant's text; NoError's is unreachable!().
description(e) ==
    IF e.ty = "NoError" THEN Panic("internal error: entered unreachable code")
    ELSE IF e.ty \in PayloadStructs THEN Ret(Plain("str", DescText(e.ty)))
    ELSE Ret(Plain("str", DescText(e.tag)))

\* derive FromName(fname): the single-kind structs each failure type is built from.
FromNameOf(name) ==
    CASE name \in {"GeneralError", "GeneralErrorKind"} -> {"Unrepresentable", "Underflow", "Overflow"}
      [] name \in {"FloatError", "RangeError", "RangeErrorKind"} -> {"Underflow", "Overflow"}
      [] OTHER -> {}

\* derive FromRemap(from(variants)): the enumerations each failure type remaps.
FromRemapOf(name) ==
    CASE name = "GeneralError" -> {"RangeError"}
      [] name = "FloatError" -> {"RangeError"}
      [] name = "GeneralErrorKind" -> {"RangeErrorKind", "RangeError", "GeneralError"}
      [] name = "RangeErrorKind" -> {"RangeError"}
      [] OTHER -> {}

\* The variants a FromRemap(from(...)) of name lists.
FromRemapVariants(name, from) ==
    IF name = "GeneralErrorKind" /\ from = "GeneralError"
    THEN {"Underflow", "Overflow", "Unrepresentable"}
    ELSE {"Underflow", "Overflow"}

\* FromName that wraps the failure itself instead of its payload.
FromName_payload_wrapped(name, e) == Variant(name, e.ty, e)

\* FromName into a payload-carrying enum: $name::$fname(e.into_inner()).
FromName_payload(name, e) == Variant(name, e.ty, into_inner(e))

\* FromName into a kind-only enum: $name::$fname.
FromName_kind(name, e) == KindVariant(name, e.ty)

\* FromNoError: panic!("cannot convert NoError into $name").
FromNoError(name, e) == Panic(<<"cannot convert NoError into ", name>>)

\* FromRemap, kind-only into kind-only: $from::$vname => $name::$vname.
FromRemap_kind(name, e) ==
    CHOOSE r \in {KindVariant(name, t) : t \in FromRemapVariants(name, e.ty)} : r.tag = e.tag

\* FromRemap that maps every listed variant to Underflow.
FromRemap_drop_first(name, e) == KindVariant(name, "Underflow")

\* FromRemap, payload-carrying into kind-only: $from::$vname(..) => $name::$vname.
FromRemap_drop(name, e) ==
    CHOOSE r \in {KindVariant(name, t) : t \in FromRemapVariants(name, e.ty)} : r.tag = e.tag

\* FromRemap that pairs the listed variants the wrong way round.
FromRemap_payload_crossed(name, e) ==
    Variant(name, IF e.tag = "Underflow" THEN "Overflow" ELSE "Underflow", e.v)

\* FromRemap, payload-carrying into payload-carrying: $from::$vname(v) => $name::$vname(v).
FromRemap_payload(name, e) ==
    CHOOSE r \in {Variant(name, t, e.v) : t \in FromRemapVariants(name, e.ty)} : r.tag = e.tag

\* From<FloatError<T>> for GeneralError<T> with Overflow taken for Unrepresentable.
From_FloatError_GeneralError_lossy(e) ==
    CASE e.tag = "Underflow" -> Variant("GeneralError", "Underflow", e.v)
      [] e.tag = "Overflow" -> Variant("GeneralError", "Unrepresentable", e.v)
      [] e.tag = "NotANumber" -> Variant("GeneralError", "Unrepresentable", e.v)

\* impl From<FloatError<T>> for GeneralError<T>.
From_FloatError_GeneralError(e) ==
    CASE e.tag = "Underflow" -> Variant("GeneralError", "Underflow", e.v)
      [] e.tag = "Overflow" -> Variant("GeneralError", "Overflow", e.v)
      [] e.tag = "NotANumber" -> Variant("GeneralError", "Unrepresentable", e.v)

\* From<FloatError<T>> for GeneralErrorKind with NotANumber taken for Overflow.
From_FloatError_GeneralErrorKind_nan_overflow(e) ==
    CASE e.tag = "Underflow" -> KindVariant("GeneralErrorKind", "Underflow")
      [] e.tag = "Overflow" -> KindVariant("GeneralErrorKind", "Overflow")
      [] e.tag = "NotANumber" -> KindVariant("GeneralErrorKind", "Overflow")

\* impl From<FloatError<T>> for GeneralErrorKind.
From_FloatError_GeneralErrorKind(e) ==
    CASE e.tag = "Underflow" -> KindVariant("GeneralErrorKind", "Underflow")
      [] e.tag = "Overflow" -> KindVariant("GeneralErrorKind", "Overflow")
      [] e.tag = "NotANumber" -> KindVariant("GeneralErrorKind", "Unrepresentable")

\* Whether the crate (or the reflexive From of the standard library) converts a
\* failure of type from into the failure type name.
HasFrom(from, name) ==
    \/ from = name
    \/ from = "NoError" /\ name \in ErrTypes
    \/ from \in FromNameOf(name)
    \/ from \in FromRemapOf(name)
    \/ from = "FloatError" /\ name \in {"GeneralError", "GeneralErrorKind"}

\* From::from(e) into the failure type name, for HasFrom(e.ty, name).
from(name, e) ==
    IF e.ty = name THEN Ret(e)
    ELSE IF e.ty = "NoError" THEN FromNoError(name, e)
    ELSE IF e.ty \in FromNameOf(name)
         THEN Ret(IF name \in KindEnums THEN FromName_kind(name, e) ELSE FromName_payload(name, e))
    ELSE IF e.ty \in FromRemapOf(name)
         THEN Ret(IF e.ty \in KindEnums THEN FromRemap_kind(name, e)
                  ELSE IF name \in KindEnums THEN FromRemap_drop(name, e)
                  ELSE FromRemap_payload(name, e))
    ELSE IF name = "GeneralError" THEN Ret(From_FloatError_GeneralError(e))
    ELSE Ret(From_FloatError_GeneralErrorKind(e))

\* Result::map_err(Into::into): the failure arm widened into the failure type name.
map_err_into(name, r) ==
    IF r.arm = "Ok" THEN Ret(Ok(r.okty, name, r.x))
    ELSE LET c == from(name, r.x)
         IN  IF c.status = "returned" THEN Ret(Err(r.okty, name, c.value)) ELSE c

(***************************************************************************)
(* derive(Eq, PartialEq, Ord, PartialOrd) of the failure types.            *)
(***************************************************************************)
\* The variants of a failure enum in the order the enum declares them.
VariantOrder(name) ==
    CASE name \in {"GeneralError", "GeneralErrorKind"} -> <<"Underflow", "Overflow", "Unrepresentable">>
      [] name = "FloatError" -> <<"Underflow", "Overflow", "NotANumber">>
      [] name \in {"RangeError", "RangeErrorKind"} -> <<"Underflow", "Overflow">>

\* The discriminant of e: the place of its variant in the declaration.
Discriminant(e) ==
    CHOOSE i \in 1..Len(VariantOrder(e.ty)) : VariantOrder(e.ty)[i] = e.tag

\* Ord::cmp of two integers.
cmp_int(m, n) == IF m < n THEN "Less" ELSE IF m = n THEN "Equal" ELSE "Greater"

\* A derived cmp that compares the payloads before the variants.
cmp_payload_first(a, b) ==
    IF a.ty \in PayloadStructs THEN cmp_int(a.v.x, b.v.x)
    ELSE IF a.ty \in KindEnums THEN cmp_int(Discriminant(a), Discriminant(b))
    ELSE IF a.v.x # b.v.x THEN cmp_int(a.v.x, b.v.x)
    ELSE cmp_int(Discriminant(a), Discriminant(b))

\* derive(Ord, PartialOrd): the discriminants first, then the fields; a struct
\* compares its one field, a kind-only enum its discriminant alone.
cmp(a, b) ==
    IF a.ty \in PayloadStructs THEN cmp_int(a.v.x, b.v.x)
    ELSE IF Discriminant(a) # Discriminant(b) THEN cmp_int(Discriminant(a), Discriminant(b))
    ELSE IF a.ty \in KindEnums THEN "Equal"
    ELSE cmp_int(a.v.x, b.v.x)

\* derive(Eq, PartialEq): the same variant and equal fields.
eq(a, b) ==
    IF a.ty \in PayloadStructs THEN a.v.x = b.v.x
    ELSE IF Discriminant(a) # Discriminant(b) THEN FALSE
    ELSE IF a.ty \in KindEnums THEN TRUE
    ELSE a.v.x = b.v.x

(***************************************************************************)
(* The recovery combinators.                                               *)
(***************************************************************************)
\* Saturate over FloatError that saturates NotANumber to the maximum.
saturate_FloatError_nan_max(t, r) ==
    CASE r.arm = "Ok" -> Ok(r.okty, "Unrepresentable", r.x)
      [] r.arm = "Err" /\ r.x.tag = "Underflow" -> Ok(r.okty, "Unrepresentable", saturated_min(t))
      [] r.arm = "Err" /\ r.x.tag = "Overflow" -> Ok(r.okty, "Unrepresentable", saturated_max(t))
      [] r.arm = "Err" /\ r.x.tag = "NotANumber" -> Ok(r.okty, "Unrepresentable", saturated_max(t))

\* impl Saturate for Result<T, FloatError<U>>.
saturate_FloatError(t, r) ==
    CASE r.arm = "Ok" -> Ok(r.okty, "Unrepresentable", r.x)
      [] r.arm = "Err" /\ r.x.tag = "Underflow" -> Ok(r.okty, "Unrepresentable", saturated_min(t))
      [] r.arm = "Err" /\ r.x.tag = "Overflow" -> Ok(r.okty, "Unrepresentable", saturated_max(t))
      [] r.arm = "Err" /\ r.x.tag = "NotANumber" ->
            Err(r.okty, "Unrepresentable", Struct("Unrepresentable", r.x.v))

\* Saturate over RangeError with the two limits swapped.
saturate_RangeError_swapped(t, r) ==
    CASE r.arm = "Ok" -> Ok(r.okty, "NoError", r.x)
      [] r.arm = "Err" /\ r.x.tag = "Underflow" -> Ok(r.okty, "NoError", saturated_max(t))
      [] r.arm = "Err" /\ r.x.tag = "Overflow" -> Ok(r.okty, "NoError", saturated_min(t))

\* impl Saturate for Result<T, RangeError<U>>.
saturate_RangeError(t, r) ==
    CASE r.arm = "Ok" -> Ok(r.okty, "NoError", r.x)
      [] r.arm = "Err" /\ r.x.tag = "Underflow" -> Ok(r.okty, "NoError", saturated_min(t))
      [] r.arm = "Err" /\ r.x.tag = "Overflow" -> Ok(r.okty, "NoError", saturated_max(t))

\* impl Saturate for Result<T, RangeErrorKind>.
saturate_RangeErrorKind(t, r) ==
    CASE r.arm = "Ok" -> Ok(r.okty, "NoError", r.x)
      [] r.arm = "Err" /\ r.x.tag = "Underflow" -> Ok(r.okty, "NoError", saturated_min(t))
      [] r.arm = "Err" /\ r.x.tag = "Overflow" -> Ok(r.okty, "NoError", saturated_max(t))

\* The failure types Saturate is implemented over.
SaturateErrs == {"FloatError", "RangeError", "RangeErrorKind"}

\* Saturate::saturate, by the failure type of r.
saturate(t, r) ==
    CASE r.err = "FloatError" -> Ret(saturate_FloatError(t, r))
      [] r.err = "RangeError" -> Ret(saturate_RangeError(t, r))
      [] r.err = "RangeErrorKind" -> Ret(saturate_RangeErrorKind(t, r))

\* impl UnwrapOk<T> for Result<T, NoError>: Ok(v) => v, Err(..) => loop {}.
unwrap_ok(r) == IF r.arm = "Ok" THEN Ret(r.x) ELSE Diverge

\* impl UnwrapOrInf for Result<T, E>, E: Into<RangeErrorKind>.
unwrap_or_inf(t, r) ==
    LET m == map_err_into("RangeErrorKind", r)
    IN  IF m.status # "returned" THEN m
        ELSE CASE m.value.arm = "Ok" -> Ret(m.value.x)
               [] m.value.arm = "Err" /\ m.value.x.tag = "Underflow" -> Ret(neg_infinity(t))
               [] m.value.arm = "Err" /\ m.value.x.tag = "Overflow" -> Ret(pos_infinity(t))

\* unwrap_or_invalid that saturates instead of giving the sentinel.
unwrap_or_invalid_saturating(t, r) == IF r.arm = "Ok" THEN Ret(r.x) ELSE Ret(saturated_max(t))

\* impl UnwrapOrInvalid for Result<T, E>.
unwrap_or_invalid(t, r) == IF r.arm = "Ok" THEN Ret(r.x) ELSE Ret(invalid_sentinel(t))

\* unwrap_or_saturate with the two limits swapped.
unwrap_or_saturate_swapped(t, r) ==
    LET m == map_err_into("RangeErrorKind", r)
    IN  IF m.status # "returned" THEN m
        ELSE CASE m.value.arm = "Ok" -> Ret(m.value.x)
               [] m.value.arm = "Err" /\ m.value.x.tag = "Underflow" -> Ret(saturated_max(t))
               [] m.value.arm = "Err" /\ m.value.x.tag = "Overflow" -> Ret(saturated_min(t))

\* impl UnwrapOrSaturate for Result<T, E>, E: Into<RangeErrorKind>.
unwrap_or_saturate(t, r) ==
    LET m == map_err_into("RangeErrorKind", r)
    IN  IF m.status # "returned" THEN m
        ELSE CASE m.value.arm = "Ok" -> Ret(m.value.x)
               [] m.value.arm = "Err" /\ m.value.x.tag = "Underflow" -> Ret(saturated_min(t))
               [] m.value.arm = "Err" /\ m.value.x.tag = "Overflow" -> Ret(saturated_max(t))

(***************************************************************************)
(* The reflexive conversions of lib.rs.                                    *)
(***************************************************************************)
\* The approximation schemes (impl ApproxScheme).
ApproxSchemes == {"DefaultApprox", "Wrapping"}

\* impl ApproxFrom<Src, Scheme> for Src: Ok(src).
approx_from(scheme, x) == Ret(Ok(x.ty, "NoError", x))

\* impl TryFrom<Src> for Src: Ok(src).
try_from(x) == Ret(Ok(x.ty, "NoError", x))

\* value_from that gives the zero of a plain type instead of its input.
value_from_zero(x) == Ret(Ok(x.ty, "NoError", IF x.ty \in {"T", "U"} THEN Plain(x.ty, 0) ELSE x))

\* impl ValueFrom<Src> for Src: Ok(src).
value_from(x) == Ret(Ok(x.ty, "NoError", x))

(***************************************************************************)
(* Conversions between two different types.  The crate's instances (its    *)
(* impls module) convert between numeric types; here the source type U     *)
(* (values Payload) and the destination type T (values DstVal).            *)
(***************************************************************************)
\* The plain types and the values each represents.
PlainTypes == {"T", "U"}
TypeRange(ty) == IF ty = "T" THEN DstVal ELSE Payload

\* Whether every value of the type srcty is a value of the type dst.
Widens(srcty, dst) == TypeRange(srcty) \subseteq TypeRange(dst)

\* The failure of a value v out of the range of dst.
OutOfRange(dst, v) ==
    IF \A n \in TypeRange(dst) : v.x < n
    THEN Variant("RangeError", "Underflow", v)
    ELSE Variant("RangeError", "Overflow", v)

\* An exact conversion: the same value in dst, or a range failure carrying the input.
value_from_impl(dst, x) ==
    IF Widens(x.ty, dst) THEN Ret(Ok(dst, "NoError", Plain(dst, x.x)))
    ELSE IF x.x \in TypeRange(dst) THEN Ret(Ok(dst, "RangeError", Plain(dst, x.x)))
    ELSE Ret(Err(dst, "RangeError", OutOfRange(dst, x)))

\* An approximating conversion: DefaultApprox fails out of range, Wrapping reduces
\* the value modulo the size of dst (the ranges start at 0).
approx_from_impl(scheme, dst, x) ==
    IF scheme = "Wrapping"
    THEN Ret(Ok(dst, "NoError", Plain(dst, x.x % Cardinality(TypeRange(dst)))))
    ELSE value_from_impl(dst, x)

\* A fallible conversion: the same value in dst, or Unrepresentable(input).
try_from_impl(dst, x) ==
    IF x.x \in TypeRange(dst) THEN Ret(Ok(dst, "Unrepresentable", Plain(dst, x.x)))
    ELSE Ret(Err(dst, "Unrepresentable", Struct("Unrepresentable", x)))

\* The impl the compiler selects for Dst: ApproxFrom<Src, Scheme>, TryFrom<Src>
\* and ValueFrom<Src>: the reflexive one of lib.rs when Dst is Src.
ApproxFromFor(scheme, dst, x) ==
    IF dst = x.ty THEN approx_from(scheme, x) ELSE approx_from_impl(scheme, dst, x)
TryFromFor(dst, x) == IF dst = x.ty THEN try_from(x) ELSE try_from_impl(dst, x)
ValueFromFor(dst, x) == IF dst = x.ty THEN value_from(x) ELSE value_from_impl(dst, x)

(***************************************************************************)
(* The forwarding layers of lib.rs.                                        *)
(***************************************************************************)
\* impl ApproxInto<Dst, Scheme> for Src: ApproxFrom::approx_from(self).
approx_into(scheme, dst, x) == ApproxFromFor(scheme, dst, x)

\* ApproxWith::approx: self.approx_into(), Self: ApproxInto<Dst>.
approx(dst, x) == approx_into("DefaultApprox", dst, x)

\* ApproxWith::approx_with that forgets the scheme it was given.
approx_with_default(scheme, dst, x) == approx_into("DefaultApprox", dst, x)

\* ApproxWith::approx_with::<Scheme>: self.approx_into(), Self: ApproxInto<Dst, Scheme>.
approx_with(scheme, dst, x) == approx_into(scheme, dst, x)

\* impl TryInto<Dst> for Src: TryFrom::try_from(self).
try_into(dst, x) == TryFromFor(dst, x)

\* value_into that forwards to the wrapping approximation.
value_into_wrapping(dst, x) == ApproxFromFor("Wrapping", dst, x)

\* impl ValueInto<Dst> for Src: ValueFrom::value_from(self).
value_into(dst, x) == ValueFromFor(dst, x)

(***************************************************************************)
(* The caller.                                                             *)
(***************************************************************************)
\* The payloads and the destination values, with their types.
Payloads == {Plain("U", p) : p \in Payload}
DstValues == {Plain("T", n) : n \in DstVal}

\* The failure values of every failure type.
FailureInputs == UNION {ErrValues(name, Payloads) : name \in ErrTypes}

\* The outcomes Result<T, E> of every failure type E.
OutcomeInputs ==
    UNION {{Ok("T", name, x) : x \in DstValues}
           \cup {Err("T", name, e) : e \in ErrValues(name, Payloads)} : name \in ErrTypes}

Inputs == DstValues \cup Payloads \cup FailureInputs \cup OutcomeInputs

\* A value of NoError, which only a defective caller (one that goes around the
\* type system) can hand over, alone and as the failure of an outcome.
ForgedNoError == [ty |-> "NoError"]
ForgedInputs == {ForgedNoError, Err("T", "NoError", ForgedNoError)}

\* One operation applied to the current value: a returned value becomes the
\* current value, a panic or a divergence ends the run.
Call(name, param) == [name |-> name, param |-> param]
Step(call, res) ==
    /\ pc = "running"
    /\ op' = call
    /\ arg' = val
    /\ pc' = IF res.status = "returned" THEN "running" ELSE res.status
    /\ val' = IF res.status = "returned" THEN res.value ELSE val
    /\ UNCHANGED T

IsFailure(v) == v.ty \in ErrTypes
IsOutcome(v) == v.ty = "Result"

\* The caller converts plain values and failure values to their own type.
IsConvertible(v) == v.ty \in {"T", "U"} \cup ErrTypes

TypeOK ==
    /\ T \in DstTypes
    /\ pc \in {"running", "panicked", "diverged"}
    /\ op.name = "input" => arg = val /\ val \in Inputs \cup ForgedInputs

Init ==
    /\ T \in DstTypes
    /\ val \in Inputs
    /\ arg = val
    /\ op = Call("input", "")
    /\ pc = "running"

\* The same caller, but one that may be defective and hand over a NoError.
DefectInit ==
    /\ T \in DstTypes
    /\ val \in Inputs \cup ForgedInputs
    /\ arg = val
    /\ op = Call("input", "")
    /\ pc = "running"

\* e.into(): a failure widened into another failure type.
Widen ==
    /\ IsFailure(val)
    /\ \E name \in ErrTypes :
          /\ HasFrom(val.ty, name)
          /\ Step(Call("from", name), from(name, val))

\* r.map_err(Into::into): the failure of an outcome widened.
MapErr ==
    /\ IsOutcome(val)
    /\ \E name \in ErrTypes :
          /\ HasFrom(val.err, name)
          /\ Step(Call("map_err", name), map_err_into(name, val))

\* e.into_inner().
IntoInner ==
    /\ IsFailure(val)
    /\ HasIntoInner(val.ty)
    /\ Step(Call("into_inner", ""), Ret(into_inner(val)))

\* e.description().
Describe ==
    /\ IsFailure(val)
    /\ Step(Call("description", ""), description(val))

\* r.saturate(), where T: Saturated.
Saturate ==
    /\ IsOutcome(val)
    /\ val.okty = "T"
    /\ val.err \in SaturateErrs
    /\ Step(Call("saturate", ""), saturate(T, val))

\* r.unwrap_ok().
UnwrapOk ==
    /\ IsOutcome(val)
    /\ val.err = "NoError"
    /\ Step(Call("unwrap_ok", ""), unwrap_ok(val))

\* r.unwrap_or_inf(), where T: SignedInfinity and E: Into<RangeErrorKind>.
UnwrapOrInf ==
    /\ IsOutcome(val)
    /\ val.okty = "T"
    /\ HasFrom(val.err, "RangeErrorKind")
    /\ Step(Call("unwrap_or_inf", ""), unwrap_or_inf(T, val))

\* r.unwrap_or_invalid(), where T: InvalidSentinel.
UnwrapOrInvalid ==
    /\ IsOutcome(val)
    /\ val.okty = "T"
    /\ Step(Call("unwrap_or_invalid", ""), unwrap_or_invalid(T, val))

\* r.unwrap_or_saturate(), where T: Saturated and E: Into<RangeErrorKind>.
UnwrapOrSaturate ==
    /\ IsOutcome(val)
    /\ val.okty = "T"
    /\ HasFrom(val.err, "RangeErrorKind")
    /\ Step(Call("unwrap_or_saturate", ""), unwrap_or_saturate(T, val))

\* <Src as ApproxFrom<Src, Scheme>>::approx_from(x).
ApproxFrom ==
    /\ IsConvertible(val)
    /\ \E scheme \in ApproxSchemes :
          Step(Call("approx_from", scheme), approx_from(scheme, val))

\* <Src as TryFrom<Src>>::try_from(x).
TryFrom ==
    /\ IsConvertible(val)
    /\ Step(Call("try_from", ""), try_from(val))

\* <Src as ValueFrom<Src>>::value_from(x).
ValueFrom ==
    /\ IsConvertible(val)
    /\ Step(Call("value_from", ""), value_from(val))

\* The types the caller converts v into: a plain value into either plain type,
\* a failure value into its own type.
ConvTargets(v) == IF v.ty \in PlainTypes THEN PlainTypes ELSE {v.ty}

\* The destination (and scheme) a forwarding call names.
Target(dst, scheme) == [dst |-> dst, scheme |-> scheme]

\* x.approx_into(), into Dst under Scheme.
ApproxInto ==
    /\ IsConvertible(val)
    /\ \E dst \in ConvTargets(val), scheme \in ApproxSchemes :
          Step(Call("approx_into", Target(dst, scheme)), approx_into(scheme, dst, val))

\* x.approx(), into Dst.
Approx ==
    /\ IsConvertible(val)
    /\ \E dst \in ConvTargets(val) :
          Step(Call("approx", Target(dst, "DefaultApprox")), approx(dst, val))

\* x.approx_with::<Scheme>(), into Dst.
ApproxWith ==
    /\ IsConvertible(val)
    /\ \E dst \in ConvTargets(val), scheme \in ApproxSchemes :
          Step(Call("approx_with", Target(dst, scheme)), approx_with(scheme, dst, val))

\* x.try_into(), into Dst.
TryInto ==
    /\ IsConvertible(val)
    /\ \E dst \in ConvTargets(val) :
          Step(Call("try_into", Target(dst, "")), try_into(dst, val))

\* x.value_into(), into Dst.
ValueInto ==
    /\ IsConvertible(val)
    /\ \E dst \in ConvTargets(val) :
          Step(Call("value_into", Target(dst, "")), value_into(dst, val))

\* a.cmp(&b), for two failures of one type.
Cmp ==
    /\ IsFailure(val)
    /\ \E b \in ErrValues(val.ty, Payloads) :
          Step(Call("cmp", b), Ret(Plain("Ordering", cmp(val, b))))

\* a == b, for two failures of one type.
Eq ==
    /\ IsFailure(val)
    /\ \E b \in ErrValues(val.ty, Payloads) :
          Step(Call("eq", b), Ret(Plain("bool", eq(val, b))))

Next ==
    \/ Widen
    \/ MapErr
    \/ IntoInner
    \/ Describe
    \/ Saturate
    \/ UnwrapOk
    \/ UnwrapOrInf
    \/ UnwrapOrInvalid
    \/ UnwrapOrSaturate
    \/ ApproxFrom
    \/ TryFrom
    \/ ValueFrom
    \/ Cmp
    \/ Eq
    \/ ApproxInto
    \/ Approx
    \/ ApproxWith
    \/ TryInto
    \/ ValueInto

Spec == Init /\ [][Next]_vars

DefectSpec == DefectInit /\ [][Next]_vars

(***************************************************************************)
(* The claims.                                                             *)
(***************************************************************************)
\* The kind a failure value stands for: its variant, or the name of its struct.
KindOf(e) == IF e.ty \in PayloadStructs THEN e.ty ELSE e.tag

\* The kind a failure keeps in the unified taxonomy.
GeneralKindOf(e) == IF KindOf(e) = "NotANumber" THEN "Unrepresentable" ELSE KindOf(e)

\* The last step applied the operation called name.
Applied(name) == op.name = name

\* C1: saturate over an outcome whose failure type is RangeError or RangeErrorKind
\* never fails: Underflow gives Ok(saturated_min), Overflow gives Ok(saturated_max),
\* Ok(x) stays Ok(x), and saturating the saturated outcome again (its failure type
\* widened back) gives the same outcome.
C1_SaturateRangeTotalIdempotent ==
    (Applied("saturate") /\ arg.err \in {"RangeError", "RangeErrorKind"}) =>
        /\ pc = "running"
        /\ val.arm = "Ok"
        /\ val.err = "NoError"
        /\ (arg.arm = "Ok" => val.x = arg.x)
        /\ (arg.arm = "Err" /\ arg.x.tag = "Underflow" => val.x = saturated_min(T))
        /\ (arg.arm = "Err" /\ arg.x.tag = "Overflow" => val.x = saturated_max(T))
        /\ LET back == map_err_into(arg.err, val)
           IN  back.status = "returned" /\ saturate(T, back.value) = Ret(val)

C1_Witness ==
    /\ Applied("saturate")
    /\ arg = Err("T", "RangeError", Variant("RangeError", "Overflow", Plain("U", 1)))
    /\ T.saturated_min = 0
    /\ T.saturated_max = 1
    /\ val = Ok("T", "NoError", Plain("T", 1))

\* C2: saturate over an outcome whose failure type is FloatError fails exactly on
\* NotANumber(v), with Unrepresentable(v) of the same payload; Underflow gives
\* Ok(saturated_min), Overflow Ok(saturated_max) and Ok(x) stays Ok(x).
C2_SaturateFloatKeepsNaN ==
    (Applied("saturate") /\ arg.err = "FloatError") =>
        /\ pc = "running"
        /\ val.err = "Unrepresentable"
        /\ (val.arm = "Err" <=> (arg.arm = "Err" /\ arg.x.tag = "NotANumber"))
        /\ (arg.arm = "Err" /\ arg.x.tag = "NotANumber" =>
                val.x = Struct("Unrepresentable", arg.x.v))
        /\ (arg.arm = "Err" /\ arg.x.tag = "Underflow" => val.x = saturated_min(T))
        /\ (arg.arm = "Err" /\ arg.x.tag = "Overflow" => val.x = saturated_max(T))
        /\ (arg.arm = "Ok" => val = Ok("T", "Unrepresentable", arg.x))

C2_Witness ==
    /\ Applied("saturate")
    /\ arg = Err("T", "FloatError", Variant("FloatError", "NotANumber", Plain("U", 1)))
    /\ val = Err("T", "Unrepresentable", Struct("Unrepresentable", Plain("U", 1)))

\* C3: over an outcome whose failure widens into RangeErrorKind, unwrap_or_saturate
\* and unwrap_or_inf resolve the arm saturate resolves: Underflow gives
\* saturated_min / neg_infinity, Overflow saturated_max / pos_infinity, Ok(x) gives
\* x, and unwrap_or_saturate gives the success value of saturate.
C3_UnwrapsAgreeWithSaturate ==
    (Applied("unwrap_or_saturate") \/ Applied("unwrap_or_inf")) =>
        LET wide == map_err_into("RangeErrorKind", arg)
            sat == IF arg.err \in SaturateErrs THEN saturate(T, arg)
                   ELSE saturate(T, wide.value)
            under == arg.arm = "Err" /\ KindOf(arg.x) = "Underflow"
            over == arg.arm = "Err" /\ KindOf(arg.x) = "Overflow"
        IN  /\ pc = "running"
            /\ sat.status = "returned" /\ sat.value.arm = "Ok"
            /\ (arg.arm = "Err" => (under \/ over))
            /\ (under => sat.value.x = saturated_min(T))
            /\ (over => sat.value.x = saturated_max(T))
            /\ (arg.arm = "Ok" => (sat.value.x = arg.x /\ val = arg.x))
            /\ (Applied("unwrap_or_saturate") =>
                  /\ val = sat.value.x
                  /\ (under => val = saturated_min(T))
                  /\ (over => val = saturated_max(T)))
            /\ (Applied("unwrap_or_inf") =>
                  /\ (under => val = neg_infinity(T))
                  /\ (over => val = pos_infinity(T)))

C3_Witness ==
    /\ Applied("unwrap_or_inf")
    /\ arg = Err("T", "RangeError", Variant("RangeError", "Underflow", Plain("U", 0)))
    /\ T.neg_infinity = 0
    /\ T.pos_infinity = 1
    /\ T.saturated_min = 1
    /\ val = Plain("T", 0)

\* C4: unwrap_or_invalid gives a plain value for every outcome: the destination's
\* invalid_sentinel on every failure, whatever its type, kind and payload, and x on
\* Ok(x).
C4_UnwrapOrInvalidTotal ==
    Applied("unwrap_or_invalid") =>
        /\ pc = "running"
        /\ val.ty = "T"
        /\ (arg.arm = "Err" => val = invalid_sentinel(T))
        /\ (arg.arm = "Ok" => val = arg.x)

C4_Witness ==
    /\ Applied("unwrap_or_invalid")
    /\ arg = Err("T", "FloatError", Variant("FloatError", "NotANumber", Plain("U", 0)))
    /\ T.invalid_sentinel = 1
    /\ T.saturated_min = 0
    /\ T.saturated_max = 0
    /\ val = Plain("T", 1)

\* C5: widening RangeError or FloatError into GeneralError always returns, and keeps
\* the kind: Underflow stays Underflow, Overflow stays Overflow, and only NotANumber
\* becomes Unrepresentable.
C5_WidenIntoGeneralError ==
    (Applied("from") /\ op.param = "GeneralError" /\ arg.ty \in {"RangeError", "FloatError"}) =>
        /\ pc = "running"
        /\ val.ty = "GeneralError"
        /\ val.tag \in GeneralErrorVariants
        /\ (arg.tag = "Underflow" => val.tag = "Underflow")
        /\ (arg.tag = "Overflow" => val.tag = "Overflow")
        /\ (arg.tag = "NotANumber" => val.tag = "Unrepresentable")
        /\ (val.tag = "Unrepresentable" => arg.tag = "NotANumber")

C5_Witness ==
    /\ Applied("from")
    /\ arg = Variant("FloatError", "NotANumber", Plain("U", 1))
    /\ val = Variant("GeneralError", "Unrepresentable", Plain("U", 1))

\* C6: a widening of RangeError, FloatError or a single-kind struct into FloatError
\* or GeneralError keeps the payload: into_inner of the widened failure is
\* into_inner of the original.
C6_PayloadRoundTrips ==
    (/\ Applied("from")
     /\ op.param \in {"FloatError", "GeneralError"}
     /\ arg.ty \in {"RangeError", "FloatError"} \cup PayloadStructs) =>
        /\ pc = "running"
        /\ val.ty = op.param
        /\ into_inner(val) = into_inner(arg)
        /\ into_inner(val) \in Payloads

C6_Witness ==
    /\ Applied("from")
    /\ arg = Struct("Underflow", Plain("U", 1))
    /\ val.ty = "FloatError"
    /\ into_inner(val) = Plain("U", 1)

\* C7: widening into a kind-only failure type gives the kind-only variant of the
\* same kind (NotANumber becoming Unrepresentable) whatever the payload, and
\* RangeErrorKind into GeneralErrorKind keeps Underflow and Overflow.
C7_KindOnlyDependsOnTag ==
    (/\ Applied("from")
     /\ op.param \in KindEnums
     /\ arg.ty \in PayloadEnums \cup {"RangeErrorKind"}
     /\ arg.ty # op.param) =>
        /\ pc = "running"
        /\ val = KindVariant(op.param, GeneralKindOf(arg))
        /\ (arg.ty \in PayloadEnums =>
               \A p \in Payloads : from(op.param, [arg EXCEPT !.v = p]) = Ret(val))
        /\ (arg.ty = "RangeErrorKind" => val.tag = arg.tag)

C7_Witness ==
    /\ Applied("from")
    /\ arg = Variant("FloatError", "NotANumber", Plain("U", 1))
    /\ val = KindVariant("GeneralErrorKind", "Unrepresentable")

\* C8: approx_from under every scheme, try_from and value_from of a value to its
\* own type return Ok(x) with x unchanged and never the failure arm.
C8_SelfConversion ==
    (Applied("approx_from") \/ Applied("try_from") \/ Applied("value_from")) =>
        /\ pc = "running"
        /\ val.ty = "Result"
        /\ val.arm = "Ok"
        /\ val.x = arg
        /\ val.okty = arg.ty
        /\ val.err = "NoError"

C8_Witness ==
    /\ Applied("approx_from")
    /\ op.param = "Wrapping"
    /\ arg = Plain("T", 1)
    /\ val = Ok("T", "NoError", Plain("T", 1))

\* C9: every operation that is handed a NoError value (a conversion of NoError into
\* another failure type, NoError's description, the failure arm of unwrap_ok) fails
\* fatally: it panics, and neither returns nor runs on.
C9_NoErrorPathsFailFatally ==
    (\/ Applied("from") /\ arg.ty = "NoError" /\ op.param # "NoError"
     \/ Applied("description") /\ arg.ty = "NoError"
     \/ Applied("unwrap_ok") /\ arg.arm = "Err") =>
        pc = "panicked"

\* C10: unwrap_ok over an outcome whose failure type is NoError returns the success
\* value; no such outcome is ever a failure, and no call runs forever.
C10_UnwrapOkReturnsValue ==
    /\ pc # "diverged"
    /\ (IsOutcome(val) /\ val.err = "NoError" => val.arm = "Ok")
    /\ (Applied("unwrap_ok") =>
           /\ pc = "running"
           /\ arg.arm = "Ok"
           /\ val = arg.x)

C10_Witness ==
    /\ Applied("unwrap_ok")
    /\ arg = Ok("T", "NoError", Plain("T", 1))
    /\ val = Plain("T", 1)

\* The place of a kind in the declarations: Underflow, Overflow, then the third.
KindRank(k) == IF k = "Underflow" THEN 1 ELSE IF k = "Overflow" THEN 2 ELSE 3

\* e with the payload p, where e carries one.
WithPayload(e, p) == IF HasIntoInner(e.ty) THEN [e EXCEPT !.v = p] ELSE e

\* C11: two failures of one type with different variants are unequal and ordered
\* by the variants alone, whatever the payloads; two with the same variant compare
\* and are equal exactly as their payloads are.
C11_OrderByTagThenPayload ==
    (Applied("cmp") \/ Applied("eq")) =>
        LET a == arg
            b == op.param
            enum == a.ty \notin PayloadStructs
            differ == enum /\ a.tag # b.tag
            order == cmp(a, b)
        IN  /\ pc = "running"
            /\ (Applied("cmp") => val = Plain("Ordering", order))
            /\ (Applied("eq") => val = Plain("bool", order = "Equal"))
            /\ (differ =>
                  /\ order = cmp_int(KindRank(a.tag), KindRank(b.tag))
                  /\ order # "Equal"
                  /\ \A p, q \in Payloads :
                        cmp(WithPayload(a, p), WithPayload(b, q)) = order)
            /\ (~differ /\ HasIntoInner(a.ty) => order = cmp_int(a.v.x, b.v.x))
            /\ (~differ /\ ~HasIntoInner(a.ty) => order = "Equal")

C11_Witness ==
    /\ Applied("cmp")
    /\ arg = Variant("FloatError", "Underflow", Plain("U", 1))
    /\ op.param = Variant("FloatError", "NotANumber", Plain("U", 0))
    /\ val = Plain("Ordering", "Less")

\* The call of the last step, as the value it returned.
Returned == IF pc = "running" THEN Ret(val) ELSE [status |-> pc, value |-> val]

C13_ForwardingOnly ==
    /\ (Applied("approx_into") \/ Applied("approx_with") =>
           Returned = ApproxFromFor(op.param.scheme, op.param.dst, arg))
    /\ (Applied("approx") => Returned = ApproxFromFor("DefaultApprox", op.param.dst, arg))
    /\ (Applied("try_into") => Returned = TryFromFor(op.param.dst, arg))
    /\ (Applied("value_into") => Returned = ValueFromFor(op.param.dst, arg))
    /\ (Applied("approx_into") \/ Applied("approx_with") \/ Applied("approx")
          \/ Applied("try_into") \/ Applied("value_into") =>
           (arg.ty = op.param.dst => Returned = Ret(Ok(arg.ty, "NoError", arg))))

C13_Witness ==
    /\ Applied("approx_with")
    /\ op.param = Target("T", "Wrapping")
    /\ arg = Plain("U", 2)
    /\ val.arm = "Ok"
    /\ approx("T", arg).value.arm = "Err"

\* C14: two sequences of widenings from one failure type to another give the same
\* failure: a widening followed by a second one equals the direct widening.
C14_WideningsCommute ==
    (Applied("from") /\ arg.ty # "NoError") =>
        /\ pc = "running"
        /\ \A name \in ErrTypes :
              (HasFrom(val.ty, name) /\ HasFrom(arg.ty, name)) =>
                  from(name, val) = from(name, arg)

C14_Witness ==
    /\ Applied("from")
    /\ arg = Variant("FloatError", "NotANumber", Plain("U", 1))
    /\ val = Variant("GeneralError", "Unrepresentable", Plain("U", 1))
    /\ from("GeneralErrorKind", val) = from("GeneralErrorKind", arg)

\* C15: an outcome over RangeError saturates to the same value after its failure is
\* widened into FloatError or into RangeErrorKind: saturate of the widened outcome
\* is Ok of the value saturate gives the original.
C15_SaturateAcrossWidening ==
    (/\ Applied("map_err")
     /\ arg.okty = "T"
     /\ arg.err = "RangeError"
     /\ op.param \in {"FloatError", "RangeErrorKind"}) =>
        LET direct == saturate(T, arg)
            wide == saturate(T, val)
        IN  /\ pc = "running"
            /\ val.err = op.param
            /\ direct.status = "returned" /\ wide.status = "returned"
            /\ direct.value.arm = "Ok"
            /\ wide.value.arm = "Ok"
            /\ wide.value.x = direct.value.x

C15_Witness ==
    /\ Applied("map_err")
    /\ op.param = "FloatError"
    /\ arg = Err("T", "RangeError", Variant("RangeError", "Underflow", Plain("U", 2)))
    /\ T.saturated_min = 0
    /\ T.saturated_max = 1
    /\ saturate(T, val) = Ret(Ok("T", "Unrepresentable", Plain("T", 0)))

====
